---- MODULE Spec2Model ----
(***************************************************************************)
(* The ledger-side state machine of the Mizan subnet: IntegrityRegistry,   *)
(* PolicyRegistry (both in src/issuer/submit/submit_epoch.ts) and          *)
(* EpochManager (src/contracts/EpochManager.sol), run on a serialized      *)
(* ledger: every call is one atomic transition, and a call that reverts    *)
(* discards every write and every log it made.  Each contract's event log   *)
(* is kept as the multiset of the events it holds.                         *)
(***************************************************************************)
EXTENDS Integers, Sequences, FiniteSets, Bags, TLC

(***************************************************************************)
(* Bounds of the model.                                                    *)
(***************************************************************************)
\* largest epoch number a submission carries
MaxEpoch == 2
\* IssuerRegistered events kept in the registry's log
MaxRegistrations == 3
\* the timer opens at most this many epochs
MaxTimerEpoch == 3
\* IssuerRegistered events, MissedEpoch events, and submissions counted per
\* timer epoch, when the three contracts run together
CoreRegistrations == 1
CoreMissed == 1
CoreCounted == 1
\* PolicyActivated events kept in the policy log
MaxActivations == 2
\* MissedEpoch events kept in the timer's log when slashing is followed to its cap
MaxMissed == 8
\* longest leaf array and deepest tree the tree functions are called with
MaxLeaves == 5
MaxDepth == 2
\* the programs' sizes: the levels of the Merkle path in Solvency (20 in the
\* source's main) and the asset classes of RiskBounds (8 in the source's main)
TREE_DEPTH == 1
NUM_ASSETS == 2

(***************************************************************************)
(* Program constants.  Ratios are scaled by 1e18 in the contracts; the     *)
(* model counts them in units of 0.5e18, so 1e18 is 2 and 10e18 is 20.     *)
(***************************************************************************)
ONE_HOUR == 3600
FIVE_MINUTES == 300
MIN_RATIO == 2
MAX_RATIO == 20

(***************************************************************************)
(* Addresses, hashes and the inputs calls are made with.                   *)
(***************************************************************************)
ZeroAddress == "0x0"
Gov == "gov"
Issuers == {"alice", "bob"}
Senders == Issuers \cup {Gov}

ZeroHash == <<>>
ZeroRoot == "0x00"
Roots == {"r1", "r2"}
EpochInputs == 0..MaxEpoch
Responses == {"true", "false", "revert"}

\* keccak256 over bytes: collision-free, never the zero word
keccak256(bytes) == <<"keccak256", bytes>>

\* the parameter tuples registerPolicy is called with
PolicyInputs ==
    { <<1, 2, 4, 2, 3600>>,     \* version 1, 100%..200%
      <<2, 3, 4, 2, 3600>>,     \* version 2, 150%..200%
      <<3, 1, 4, 2, 3600>>,     \* min ratio below 100%
      <<3, 2, 21, 2, 3600>>,    \* max ratio above 1000%
      <<3, 4, 3, 2, 3600>>,     \* max below min
      <<3, 2, 4, 1, 3600>>,     \* supply coverage below 100%
      <<0, 2, 4, 2, 3600>>,     \* versions 0, 3, 4 and 5, 100%..200%
      <<3, 2, 4, 2, 3600>>,
      <<4, 2, 4, 2, 3600>>,
      <<5, 2, 4, 2, 3600>> }
PolicyHashes == { keccak256(p) : p \in PolicyInputs }
HashInputs == PolicyHashes \cup {ZeroHash}

VARIABLES
    now,                 \* block.timestamp
    \* IntegrityRegistry
    epochRecords, latestEpoch, isRegisteredIssuer, registryEvents,
    \* PolicyRegistry
    policies, policyVersions, activePolicy, governance, policyEvents,
    \* EpochManager
    currentEpoch, epochDuration, gracePeriod, epochs, missedEpochs,
    slashingScore, integrityRegistry, emGovernance, timerEvents,
    \* the call made in the step just taken, with its outcome
    lastCall,
    \* the tree builder and the witness generator: the caller's leaf array,
    \* depth and leaf index, what buildTree and buildMerkleTree returned, what
    \* getProof and getMerkleProof returned, the witness handed to verifyProof
    \* and its answer
    leafValues, treeDepth, builtTree, witnessTree, leafIndex, merkleProof,
    witnessProof, checkedProof, verified,
    \* the EpochSubmitter clients: where each stands in submitEpoch, the epoch
    \* it submits, the latestEpoch it read and how its transaction ended
    submitters,
    \* the constraint programs: the program at hand, the values given to its
    \* input signals, and what witness generation computed from them
    circuit, inputSignals, outputSignals

registryVars == <<epochRecords, latestEpoch, isRegisteredIssuer, registryEvents>>
policyVars == <<policies, policyVersions, activePolicy, governance, policyEvents>>
timerVars == <<currentEpoch, epochDuration, gracePeriod, epochs, missedEpochs,
               slashingScore, integrityRegistry, emGovernance, timerEvents>>
contractVars == <<now, registryVars, policyVars, timerVars, lastCall>>
merkleVars == <<leafValues, treeDepth, builtTree, witnessTree, leafIndex, merkleProof,
                witnessProof, checkedProof, verified>>
circuitVars == <<circuit, inputSignals, outputSignals>>
offChainVars == <<merkleVars, submitters, circuitVars>>
vars == <<contractVars, offChainVars>>

(***************************************************************************)
(* Revert semantics: a call's writes and logs are committed only when it   *)
(* returns normally; a revert restores the state the call started from.    *)
(***************************************************************************)
\* a rejection path that returned instead of reverting would commit as well
CommitsOnRejection(result) == result \in {"ok", "ProofVerificationFailed"}

Commits(result) == result = "ok"

\* a revert that kept what the call had written
RevertKeeps(pre, post) == post

Revert(pre, post) == pre

NoCall == [op |-> "none", sender |-> ZeroAddress, epoch |-> 0,
           publicInputs |-> ZeroHash, response |-> "none", result |-> "none"]

Call(op, sender, result) == [NoCall EXCEPT !.op = op, !.sender = sender, !.result = result]

(***************************************************************************)
(* IntegrityRegistry                                                       *)
(***************************************************************************)
ZeroRecord == [epoch |-> 0, merkleRoot |-> ZeroRoot, proofHash |-> ZeroHash,
               issuer |-> ZeroAddress, timestamp |-> 0, verified |-> FALSE]

IssuerRegistered(issuer, timestamp) ==
    [type |-> "IssuerRegistered", issuer |-> issuer, timestamp |-> timestamp]

IntegrityProven(issuer, epoch, merkleRoot, proofHash, timestamp) ==
    [type |-> "IntegrityProven", issuer |-> issuer, epoch |-> epoch,
     merkleRoot |-> merkleRoot, proofHash |-> proofHash, timestamp |-> timestamp]

ProofRejected(issuer, epoch, reason) ==
    [type |-> "ProofRejected", issuer |-> issuer, epoch |-> epoch, reason |-> reason]

\* the log with the events of a call added, in the order they were emitted
RECURSIVE Emit(_, _)
Emit(log, events) ==
    IF events = <<>> THEN log
    ELSE Emit(log (+) SetToBag({Head(events)}), Tail(events))

\* how many events of a type a log holds
Count(log, type) ==
    BagCardinality([e \in { x \in DOMAIN log : x.type = type } |-> log[e]])

\* _verifyProof: a failed staticcall counts as a rejected proof
_verifyProof(response) == IF response = "revert" THEN FALSE ELSE response = "true"

\* the epoch check weakened to "newer than the latest": gaps pass
submitProofResultNoGapCheck(sender, epoch, response) ==
    IF ~isRegisteredIssuer[sender] THEN "NotRegisteredIssuer"
    ELSE IF epoch <= latestEpoch[sender] THEN "InvalidEpoch"
    ELSE IF epochRecords[sender][epoch].timestamp # 0 THEN "EpochAlreadySubmitted"
    ELSE IF ~_verifyProof(response) THEN "ProofVerificationFailed"
    ELSE "ok"

\* the proof verified before the epoch is looked at
submitProofResultVerifyFirst(sender, epoch, response) ==
    IF ~isRegisteredIssuer[sender] THEN "NotRegisteredIssuer"
    ELSE IF ~_verifyProof(response) THEN "ProofVerificationFailed"
    ELSE IF epoch # latestEpoch[sender] + 1 THEN "InvalidEpoch"
    ELSE IF epochRecords[sender][epoch].timestamp # 0 THEN "EpochAlreadySubmitted"
    ELSE "ok"

\* neither the epoch check nor the already-submitted check
submitProofResultNoSequence(sender, epoch, response) ==
    IF ~isRegisteredIssuer[sender] THEN "NotRegisteredIssuer"
    ELSE IF ~_verifyProof(response) THEN "ProofVerificationFailed"
    ELSE "ok"

\* the epoch check dropped, the already-submitted check kept
submitProofResultAnyEpoch(sender, epoch, response) ==
    IF ~isRegisteredIssuer[sender] THEN "NotRegisteredIssuer"
    ELSE IF epochRecords[sender][epoch].timestamp # 0 THEN "EpochAlreadySubmitted"
    ELSE IF ~_verifyProof(response) THEN "ProofVerificationFailed"
    ELSE "ok"

\* the checks of submitProof, in the order the code makes them
submitProofResult(sender, epoch, response) ==
    IF ~isRegisteredIssuer[sender] THEN "NotRegisteredIssuer"
    ELSE IF epoch # latestEpoch[sender] + 1 THEN "InvalidEpoch"
    ELSE IF epochRecords[sender][epoch].timestamp # 0 THEN "EpochAlreadySubmitted"
    ELSE IF ~_verifyProof(response) THEN "ProofVerificationFailed"
    ELSE "ok"

\* the record submitProof stores
NewEpochRecord(sender, epoch, merkleRoot, proof) ==
    [epoch |-> epoch, merkleRoot |-> merkleRoot, proofHash |-> keccak256(proof),
     issuer |-> sender, timestamp |-> now, verified |-> TRUE]

\* the acceptance event emitted before the store and again after it
submitProofEventsTwice(result, sender, epoch, merkleRoot, proof) ==
    IF result = "ok"
        THEN <<IntegrityProven(sender, epoch, merkleRoot, keccak256(proof), now),
               IntegrityProven(sender, epoch, merkleRoot, keccak256(proof), now)>>
    ELSE IF result = "ProofVerificationFailed"
        THEN <<ProofRejected(sender, epoch, "Verification failed")>>
    ELSE <<>>

\* the events submitProof emits on the path that ends with `result`
submitProofEvents(result, sender, epoch, merkleRoot, proof) ==
    IF result = "ok"
        THEN <<IntegrityProven(sender, epoch, merkleRoot, keccak256(proof), now)>>
    ELSE IF result = "ProofVerificationFailed"
        THEN <<ProofRejected(sender, epoch, "Verification failed")>>
    ELSE <<>>

registerIssuer(sender) ==
    /\ isRegisteredIssuer' = [isRegisteredIssuer EXCEPT ![sender] = TRUE]
    /\ registryEvents' = Emit(registryEvents, <<IssuerRegistered(sender, now)>>)
    /\ lastCall' = Call("registerIssuer", sender, "ok")
    /\ UNCHANGED <<now, epochRecords, latestEpoch, policyVars, timerVars>>

submitProof(sender, epoch, merkleRoot, proof, publicInputs, response) ==
    LET result == submitProofResult(sender, epoch, response)
        emitted == Emit(registryEvents,
                        submitProofEvents(result, sender, epoch, merkleRoot, proof))
        stored == [epochRecords EXCEPT
                      ![sender][epoch] = NewEpochRecord(sender, epoch, merkleRoot, proof)]
        advanced == [latestEpoch EXCEPT ![sender] = epoch]
    IN  /\ lastCall' = [op |-> "submitProof", sender |-> sender, epoch |-> epoch,
                        publicInputs |-> publicInputs, response |-> response,
                        result |-> result]
        /\ IF Commits(result)
              THEN /\ epochRecords' = stored
                   /\ latestEpoch' = advanced
                   /\ registryEvents' = emitted
              ELSE /\ epochRecords' = epochRecords
                   /\ latestEpoch' = latestEpoch
                   /\ registryEvents' = Revert(registryEvents, emitted)
        /\ UNCHANGED <<now, isRegisteredIssuer, policyVars, timerVars>>

(***************************************************************************)
(* PolicyRegistry                                                          *)
(***************************************************************************)
ZeroPolicy == [policyHash |-> ZeroHash, version |-> 0, minCollateralRatio |-> 0,
               maxCollateralRatio |-> 0, minSupplyCoverage |-> 0,
               epochDeadlineSeconds |-> 0, isActive |-> FALSE, createdAt |-> 0]

PolicyRegistered(policyHash, version, minCollateralRatio, timestamp) ==
    [type |-> "PolicyRegistered", policyHash |-> policyHash, version |-> version,
     minCollateralRatio |-> minCollateralRatio, timestamp |-> timestamp]

PolicyActivated(policyHash, timestamp) ==
    [type |-> "PolicyActivated", policyHash |-> policyHash, timestamp |-> timestamp]

PolicyDeactivated(policyHash, timestamp) ==
    [type |-> "PolicyDeactivated", policyHash |-> policyHash, timestamp |-> timestamp]

\* registerPolicy without the PolicyExists check: a second registration overwrites
registerPolicyResultOverwrites(sender, params) ==
    IF sender # governance THEN "Unauthorized"
    ELSE IF params[2] < MIN_RATIO THEN "InvalidRatio"
    ELSE IF params[3] > MAX_RATIO THEN "InvalidRatio"
    ELSE IF params[3] < params[2] THEN "InvalidRatio"
    ELSE IF params[4] < MIN_RATIO THEN "InvalidRatio"
    ELSE "ok"

\* registerPolicy without the check that the maximum is not below the minimum
registerPolicyResultNoOrder(sender, params) ==
    IF sender # governance THEN "Unauthorized"
    ELSE IF params[2] < MIN_RATIO THEN "InvalidRatio"
    ELSE IF params[3] > MAX_RATIO THEN "InvalidRatio"
    ELSE IF params[4] < MIN_RATIO THEN "InvalidRatio"
    ELSE IF policies[keccak256(params)].createdAt # 0 THEN "PolicyExists"
    ELSE "ok"

\* the checks of registerPolicy, in the order the code makes them
registerPolicyResult(sender, params) ==
    IF sender # governance THEN "Unauthorized"
    ELSE IF params[2] < MIN_RATIO THEN "InvalidRatio"
    ELSE IF params[3] > MAX_RATIO THEN "InvalidRatio"
    ELSE IF params[3] < params[2] THEN "InvalidRatio"
    ELSE IF params[4] < MIN_RATIO THEN "InvalidRatio"
    ELSE IF policies[keccak256(params)].createdAt # 0 THEN "PolicyExists"
    ELSE "ok"

\* the record registerPolicy stores
NewPolicy(params) ==
    [policyHash |-> keccak256(params), version |-> params[1],
     minCollateralRatio |-> params[2], maxCollateralRatio |-> params[3],
     minSupplyCoverage |-> params[4], epochDeadlineSeconds |-> params[5],
     isActive |-> FALSE, createdAt |-> now]

registerPolicy(sender, params) ==
    LET result == registerPolicyResult(sender, params)
        policyHash == keccak256(params)
    IN  /\ lastCall' = Call("registerPolicy", sender, result)
        /\ IF Commits(result)
              THEN /\ policies' = [policies EXCEPT ![policyHash] = NewPolicy(params)]
                   /\ policyVersions' = Append(policyVersions, policyHash)
                   /\ policyEvents' = Emit(policyEvents,
                          <<PolicyRegistered(policyHash, params[1], params[2], now)>>)
              ELSE UNCHANGED <<policies, policyVersions, policyEvents>>
        /\ UNCHANGED <<now, activePolicy, governance, registryVars, timerVars>>

activatePolicyResult(sender, policyHash) ==
    IF sender # governance THEN "Unauthorized"
    ELSE IF policies[policyHash].createdAt = 0 THEN "PolicyNotFound"
    ELSE "ok"

\* an activation that leaves the flag of the old active record set
ActivatedPoliciesKeepsOld(policyHash) ==
    [policies EXCEPT ![policyHash].isActive = TRUE]

\* the policy table after activatePolicy: the old active record is cleared first
ActivatedPolicies(policyHash) ==
    LET cleared == IF activePolicy # ZeroHash
                      THEN [policies EXCEPT ![activePolicy].isActive = FALSE]
                      ELSE policies
    IN  [cleared EXCEPT ![policyHash].isActive = TRUE]

activatePolicy(sender, policyHash) ==
    LET result == activatePolicyResult(sender, policyHash)
        deactivated == IF activePolicy # ZeroHash
                          THEN <<PolicyDeactivated(activePolicy, now)>>
                          ELSE <<>>
    IN  /\ Count(policyEvents, "PolicyActivated") < MaxActivations
        /\ lastCall' = Call("activatePolicy", sender, result)
        /\ IF Commits(result)
              THEN /\ policies' = ActivatedPolicies(policyHash)
                   /\ activePolicy' = policyHash
                   /\ policyEvents' = Emit(policyEvents,
                          deactivated \o <<PolicyActivated(policyHash, now)>>)
              ELSE UNCHANGED <<policies, activePolicy, policyEvents>>
        /\ UNCHANGED <<now, policyVersions, governance, registryVars, timerVars>>

\* the window widened to two versions back
isValidPolicyTwoBack(policyHash) ==
    LET policy == policies[policyHash]
        active == policies[activePolicy]
    IN  IF policy.createdAt = 0 THEN "false"
        ELSE IF policyHash = activePolicy THEN "true"
        ELSE IF active.version = 0 THEN "Panic"
        ELSE IF policy.version + 1 >= active.version - 1 THEN "true"
        ELSE "false"

\* isValidPolicy: "true", "false", or "Panic" when active.version - 1 underflows
isValidPolicy(policyHash) ==
    LET policy == policies[policyHash]
        active == policies[activePolicy]
    IN  IF policy.createdAt = 0 THEN "false"
        ELSE IF policyHash = activePolicy THEN "true"
        ELSE IF active.version = 0 THEN "Panic"
        ELSE IF policy.version >= active.version - 1 THEN "true"
        ELSE "false"

\* a call of the isValidPolicy view with the hash a proof carries
isValidPolicyCall(sender, policyHash) ==
    /\ lastCall' = [Call("isValidPolicy", sender, isValidPolicy(policyHash))
                        EXCEPT !.publicInputs = policyHash]
    /\ UNCHANGED <<now, registryVars, policyVars, timerVars>>

setGovernanceResult(sender, newGovernance) ==
    IF sender # governance THEN "Unauthorized"
    ELSE IF newGovernance = ZeroAddress THEN "Invalid address"
    ELSE "ok"

setGovernance(sender, newGovernance) ==
    LET result == setGovernanceResult(sender, newGovernance)
    IN  /\ lastCall' = Call("setGovernance", sender, result)
        /\ governance' = IF Commits(result) THEN newGovernance ELSE governance
        /\ UNCHANGED <<now, policies, policyVersions, activePolicy, policyEvents,
                       registryVars, timerVars>>

(***************************************************************************)
(* EpochManager                                                            *)
(***************************************************************************)
ZeroEpochState == [startTime |-> 0, endTime |-> 0, finalized |-> FALSE,
                   totalSubmissions |-> 0, totalSlashed |-> 0]

EpochStarted(epoch, startTime, endTime) ==
    [type |-> "EpochStarted", epoch |-> epoch, startTime |-> startTime, endTime |-> endTime]

EpochFinalized(epoch, totalSubmissions) ==
    [type |-> "EpochFinalized", epoch |-> epoch, totalSubmissions |-> totalSubmissions]

MissedEpoch(issuer, epoch) ==
    [type |-> "MissedEpoch", issuer |-> issuer, epoch |-> epoch]

SlashingApplied(issuer, score, missed) ==
    [type |-> "SlashingApplied", issuer |-> issuer, score |-> score, missed |-> missed]

\* an epoch opened with the default duration instead of the one in force
NewEpochStateDefaultDuration ==
    [startTime |-> now, endTime |-> now + ONE_HOUR, finalized |-> FALSE,
     totalSubmissions |-> 0, totalSlashed |-> 0]

\* an epoch opened with its finalized flag already set
NewEpochStateFinalized ==
    [startTime |-> now, endTime |-> now + epochDuration, finalized |-> TRUE,
     totalSubmissions |-> 0, totalSlashed |-> 0]

\* the state _startEpoch gives the epoch it opens
NewEpochState == [startTime |-> now, endTime |-> now + epochDuration, finalized |-> FALSE,
                  totalSubmissions |-> 0, totalSlashed |-> 0]

isEpochActive ==
    LET state == epochs[currentEpoch]
    IN  now >= state.startTime /\ now <= state.endTime + gracePeriod

\* the boundary instant endTime + gracePeriod counted as past
advanceEpochResultAtBoundary ==
    LET state == epochs[currentEpoch]
    IN  IF ~(now >= state.endTime + gracePeriod) THEN "Current epoch still active"
        ELSE IF state.finalized THEN "Already finalized"
        ELSE "ok"

advanceEpochResult ==
    LET state == epochs[currentEpoch]
    IN  IF ~(now > state.endTime + gracePeriod) THEN "Current epoch still active"
        ELSE IF state.finalized THEN "Already finalized"
        ELSE "ok"

advanceEpoch(sender) ==
    LET result == advanceEpochResult
        state == epochs[currentEpoch]
    IN  /\ currentEpoch < MaxTimerEpoch
        /\ lastCall' = Call("advanceEpoch", sender, result)
        /\ IF Commits(result)
              THEN /\ currentEpoch' = currentEpoch + 1
                   /\ epochs' = [epochs EXCEPT ![currentEpoch].finalized = TRUE,
                                               ![currentEpoch + 1] = NewEpochState]
                   /\ timerEvents' = Emit(timerEvents,
                          <<EpochFinalized(currentEpoch, state.totalSubmissions),
                            EpochStarted(currentEpoch + 1, now, now + epochDuration)>>)
              ELSE UNCHANGED <<currentEpoch, epochs, timerEvents>>
        /\ UNCHANGED <<now, epochDuration, gracePeriod, missedEpochs, slashingScore,
                       integrityRegistry, emGovernance, registryVars, policyVars>>

\* a modifier that lets every caller through
onlyRegistryAnyone(sender) == "ok"

\* the onlyRegistry modifier
onlyRegistry(sender) == IF sender # integrityRegistry THEN "Unauthorized" ELSE "ok"

\* the onlyGovernance modifier of EpochManager
onlyGovernance(sender) == IF sender # emGovernance THEN "Unauthorized" ELSE "ok"

recordSubmission(sender, issuer) ==
    LET result == onlyRegistry(sender)
    IN  /\ lastCall' = Call("recordSubmission", sender, result)
        /\ IF Commits(result)
              THEN /\ epochs' = [epochs EXCEPT ![currentEpoch].totalSubmissions = @ + 1]
                   /\ missedEpochs' = IF missedEpochs[issuer] > 0
                                         THEN [missedEpochs EXCEPT ![issuer] = 0]
                                         ELSE missedEpochs
              ELSE UNCHANGED <<epochs, missedEpochs>>
        /\ UNCHANGED <<now, currentEpoch, epochDuration, gracePeriod, slashingScore,
                       integrityRegistry, emGovernance, timerEvents,
                       registryVars, policyVars>>

\* the penalty staying at 10 from the second miss on
SlashedScoreFlat(missed, score) ==
    LET penalty == IF missed = 1 THEN 5 ELSE 10
    IN  IF score + penalty > 100 THEN 100 ELSE score + penalty

\* the score left to grow past 100
SlashedScoreUncapped(missed, score) ==
    LET penalty == IF missed = 1 THEN 5 ELSE IF missed <= 3 THEN 10 ELSE 20
    IN  score + penalty

\* _applySlashing: the score after a miss that brought the streak to `missed`
SlashedScore(missed, score) ==
    LET penalty == IF missed = 1 THEN 5 ELSE IF missed <= 3 THEN 10 ELSE 20
    IN  IF score + penalty > 100 THEN 100 ELSE score + penalty

recordMissedEpoch(sender, issuer) ==
    LET result == onlyRegistry(sender)
        missed == missedEpochs[issuer] + 1
        score == SlashedScore(missed, slashingScore[issuer])
    IN  /\ lastCall' = Call("recordMissedEpoch", sender, result)
        /\ IF Commits(result)
              THEN /\ missedEpochs' = [missedEpochs EXCEPT ![issuer] = missed]
                   /\ epochs' = [epochs EXCEPT ![currentEpoch].totalSlashed = @ + 1]
                   /\ slashingScore' = [slashingScore EXCEPT ![issuer] = score]
                   /\ timerEvents' = Emit(timerEvents,
                          <<MissedEpoch(issuer, currentEpoch),
                            SlashingApplied(issuer, score, missed)>>)
              ELSE UNCHANGED <<missedEpochs, epochs, slashingScore, timerEvents>>
        /\ UNCHANGED <<now, currentEpoch, epochDuration, gracePeriod,
                       integrityRegistry, emGovernance, registryVars, policyVars>>

setEpochDurationResult(sender, newDuration) ==
    IF onlyGovernance(sender) # "ok" THEN "Unauthorized"
    ELSE IF newDuration < ONE_HOUR THEN "InvalidDuration"
    ELSE "ok"

setEpochDuration(sender, newDuration) ==
    LET result == setEpochDurationResult(sender, newDuration)
    IN  /\ lastCall' = Call("setEpochDuration", sender, result)
        /\ epochDuration' = IF Commits(result) THEN newDuration ELSE epochDuration
        /\ UNCHANGED <<now, currentEpoch, gracePeriod, epochs, missedEpochs,
                       slashingScore, integrityRegistry, emGovernance, timerEvents,
                       registryVars, policyVars>>

setIntegrityRegistryResult(sender, registry) ==
    IF onlyGovernance(sender) # "ok" THEN "Unauthorized"
    ELSE IF registry = ZeroAddress THEN "Invalid address"
    ELSE "ok"

setIntegrityRegistry(sender, registry) ==
    LET result == setIntegrityRegistryResult(sender, registry)
    IN  /\ lastCall' = Call("setIntegrityRegistry", sender, result)
        /\ integrityRegistry' = IF Commits(result) THEN registry ELSE integrityRegistry
        /\ UNCHANGED <<now, currentEpoch, epochDuration, gracePeriod, epochs,
                       missedEpochs, slashingScore, emGovernance, timerEvents,
                       registryVars, policyVars>>

(***************************************************************************)
(* The Merkle tree builder (submit_epoch.ts) and the witness generator     *)
(* (generate_witness.ts).  Leaf values are bigints; a Poseidon hash is a   *)
(* term over its inputs, so that two hashes are equal exactly when their   *)
(* inputs are.  A function that throws returns a record whose error field  *)
(* names what was thrown.                                                  *)
(***************************************************************************)
Undefined == <<"undefined">>

poseidon(inputs) == <<"poseidon", inputs>>

hashLeaf(value) == poseidon(<<value>>)

hashPair(left, right) == poseidon(<<left, right>>)

\* array[i] of a JavaScript array, counted from 0
At(array, i) == IF i + 1 \in DOMAIN array THEN array[i + 1] ELSE Undefined

\* padding with a value that is not the zero leaf
RECURSIVE PadWithOnes(_, _)
PadWithOnes(leaves, size) ==
    IF Len(leaves) < size THEN PadWithOnes(Append(leaves, 1), size) ELSE leaves

\* while (leaves.length < size) leaves.push(0n), on the copy [...values]
RECURSIVE Pad(_, _)
Pad(leaves, size) ==
    IF Len(leaves) < size THEN Pad(Append(leaves, 0), size) ELSE leaves

\* leaves.map((v) => hashLeaf(v))
HashLeaves(leaves) == [k \in 1..Len(leaves) |-> hashLeaf(leaves[k])]

\* the inner loop: adjacent pairs of an even-length layer hashed together
PairUp(prevLayer) ==
    [k \in 1..(Len(prevLayer) \div 2) |-> hashPair(prevLayer[2 * k - 1], prevLayer[2 * k])]

\* with an odd number of entries the last pair reads past the end, and
\* poseidon throws on the undefined input
PairUpThrows(prevLayer) == Len(prevLayer) % 2 = 1

\* for (d = 1; d <= depth; d++): layers[d] from layers[d - 1]; the layer the
\* code calls layers[d] is the element d + 1 of the sequence
RECURSIVE BuildLayers(_, _, _)
BuildLayers(layers, d, depth) ==
    IF d > depth THEN [error |-> "none", layers |-> layers]
    ELSE IF PairUpThrows(layers[d]) THEN [error |-> "TypeError", layers |-> layers]
    ELSE BuildLayers(Append(layers, PairUp(layers[d])), d + 1, depth)

NoTree == [error |-> "unbuilt", root |-> Undefined, leaves |-> <<>>, depth |-> 0,
           layers |-> <<>>]

buildTree(values, depth) ==
    LET size == 2 ^ depth
        leaves == Pad(values, size)
        built == BuildLayers(<<HashLeaves(leaves)>>, 1, depth)
    IN  IF built.error # "none" THEN [NoTree EXCEPT !.error = built.error]
        ELSE [error |-> "none", root |-> built.layers[depth + 1][1], leaves |-> leaves,
              depth |-> depth, layers |-> built.layers]

NoProof == [error |-> "unasked", root |-> Undefined, leaf |-> 0, path |-> <<>>,
            indices |-> <<>>]

\* the sibling taken on the right whatever the parity of the index
RECURSIVE getProofLoopRightSibling(_, _, _, _)
getProofLoopRightSibling(tree, idx, d, walk) ==
    IF d >= tree.depth THEN walk
    ELSE getProofLoopRightSibling(tree, idx \div 2, d + 1,
             [path |-> Append(walk.path, At(tree.layers[d + 1], idx + 1)),
              indices |-> Append(walk.indices, idx % 2)])

\* for (d = 0; d < tree.depth; d++): one sibling and one indicator per layer
RECURSIVE getProofLoop(_, _, _, _)
getProofLoop(tree, idx, d, walk) ==
    IF d >= tree.depth THEN walk
    ELSE LET layer == tree.layers[d + 1]
             siblingIdx == IF idx % 2 = 0 THEN idx + 1 ELSE idx - 1
         IN  getProofLoop(tree, idx \div 2, d + 1,
                 [path |-> Append(walk.path, At(layer, siblingIdx)),
                  indices |-> Append(walk.indices, idx % 2)])

getProof(tree, index) ==
    IF index >= Len(tree.leaves) THEN [NoProof EXCEPT !.error = "Index out of bounds"]
    ELSE LET walk == getProofLoop(tree, index, 0, [path |-> <<>>, indices |-> <<>>])
         IN  [error |-> "none", root |-> tree.root, leaf |-> tree.leaves[index + 1],
              path |-> walk.path, indices |-> walk.indices]

\* the running hash always placed on the left, the indicator ignored
RECURSIVE verifyProofLoopHashFirst(_, _, _)
verifyProofLoopHashFirst(proof, i, hash) ==
    IF i >= Len(proof.path) THEN hash
    ELSE verifyProofLoopHashFirst(proof, i + 1, hashPair(hash, proof.path[i + 1]))

\* for (i = 0; i < proof.path.length; i++): the leaf hash folded with the path
RECURSIVE verifyProofLoop(_, _, _)
verifyProofLoop(proof, i, hash) ==
    IF i >= Len(proof.path) THEN hash
    ELSE verifyProofLoop(proof, i + 1,
             IF proof.indices[i + 1] = 0 THEN hashPair(hash, proof.path[i + 1])
                                         ELSE hashPair(proof.path[i + 1], hash))

verifyProof(proof) == verifyProofLoop(proof, 0, hashLeaf(proof.leaf)) = proof.root

\* while (level.length > 1): the level halved until one hash remains
RECURSIVE ReduceLevels(_)
ReduceLevels(level) ==
    IF Len(level) <= 1 THEN [error |-> "none", level |-> level]
    ELSE IF PairUpThrows(level) THEN [error |-> "TypeError", level |-> level]
    ELSE ReduceLevels(PairUp(level))

NoWitnessTree == [error |-> "unbuilt", root |-> Undefined, leaves |-> <<>>]

buildMerkleTree(values, depth) ==
    LET size == 2 ^ depth
        leaves == Pad(values, size)
        reduced == ReduceLevels(HashLeaves(leaves))
    IN  IF reduced.error # "none" THEN [NoWitnessTree EXCEPT !.error = reduced.error]
        ELSE [error |-> "none", root |-> reduced.level[1], leaves |-> leaves]

NoWitnessProof == [error |-> "unasked", root |-> Undefined, path |-> <<>>, indices |-> <<>>]

\* level[siblingIdx] || 0n
SiblingOrZero(level, siblingIdx) ==
    IF At(level, siblingIdx) = Undefined THEN 0 ELSE At(level, siblingIdx)

\* for (i = 0; i < depth; i++): the sibling is read, then the next level is
\* hashed from the whole of this one
RECURSIVE getMerkleProofLoop(_, _, _, _, _)
getMerkleProofLoop(level, idx, i, depth, walk) ==
    IF i >= depth THEN [error |-> "none", root |-> At(level, 0), path |-> walk.path,
                        indices |-> walk.indices]
    ELSE IF PairUpThrows(level) THEN [NoWitnessProof EXCEPT !.error = "TypeError"]
    ELSE LET siblingIdx == IF idx % 2 = 0 THEN idx + 1 ELSE idx - 1
         IN  getMerkleProofLoop(PairUp(level), idx \div 2, i + 1, depth,
                 [path |-> Append(walk.path, SiblingOrZero(level, siblingIdx)),
                  indices |-> Append(walk.indices, idx % 2)])

getMerkleProof(leaves, index, depth) ==
    getMerkleProofLoop(HashLeaves(leaves), index, 0, depth, [path |-> <<>>, indices |-> <<>>])

(***************************************************************************)
(* EpochSubmitter (TypeScript client).  submitEpoch awaits twice: it reads *)
(* latestEpoch and checks the sequence, then sends the transaction and     *)
(* waits for the receipt.  Other transactions may be applied in between.   *)
(***************************************************************************)
Submitters == {"s1", "s2"}

IdleSubmitter == [pc |-> "idle", epoch |-> 0, latestEpoch |-> 0, result |-> "none"]

getLatestEpoch(wallet) == latestEpoch[wallet]

\* submitEpoch up to the throw of the client-side check
submitEpochCheck(s, wallet, epoch) ==
    LET latest == getLatestEpoch(wallet)
        sequential == epoch = latest + 1
    IN  /\ submitters[s].pc = "idle"
        /\ submitters' = [submitters EXCEPT ![s] =
                [pc |-> IF sequential THEN "checked" ELSE "thrown",
                 epoch |-> epoch, latestEpoch |-> latest,
                 result |-> IF sequential THEN "none" ELSE "Invalid epoch"]]
        /\ UNCHANGED <<contractVars, merkleVars, circuitVars>>

\* the rest of submitEpoch: the submitProof transaction is applied and the
\* receipt awaited; a reverted transaction makes the client throw
submitEpochSend(s, wallet, merkleRoot, proof, publicInputs, response) ==
    /\ submitters[s].pc = "checked"
    /\ submitProof(wallet, submitters[s].epoch, merkleRoot, proof, publicInputs, response)
    /\ submitters' = [submitters EXCEPT
            ![s].pc = "done",
            ![s].result = submitProofResult(wallet, submitters[s].epoch, response)]
    /\ UNCHANGED <<merkleVars, circuitVars>>

\* submitEpoch has returned or thrown; the client is free to call it again
submitEpochReturn(s) ==
    /\ submitters[s].pc \in {"done", "thrown"}
    /\ submitters' = [submitters EXCEPT ![s] = IdleSubmitter]
    /\ UNCHANGED <<contractVars, merkleVars, circuitVars>>

(***************************************************************************)
(* The constraint programs (src/zk/circuits).  A signal assigned with <==  *)
(* is computed from the signals before it; a constraint written with ===   *)
(* is what an assignment has to satisfy.  The field elements met here stay *)
(* far below the 252 bits of the comparators, so no product wraps.         *)
(***************************************************************************)
\* 1000000000000000000, the fixed-point scale, counted like the ratios in
\* units of 0.5 * 10^18 (a ratio of 1.5e18 is 3)
E18 == 2

\* circomlib's hash, one-to-one on its input array
Poseidon(inputs) == <<"Poseidon", inputs>>

\* circomlib's comparators: the output signal is 1 or 0
GreaterEqThan(in0, in1) == IF in0 >= in1 THEN 1 ELSE 0
LessEqThan(in0, in1) == IF in0 <= in1 THEN 1 ELSE 0
GreaterThan(in0, in1) == IF in0 > in1 THEN 1 ELSE 0

\* circomlib's Mux1 on a selector of 0 or 1: out = (c[1] - c[0]) * s + c[0]
Mux1(c0, c1, s) == IF s = 0 THEN c0 ELSE c1

\* policy_check <== policy_binding * 0 + 1: the hash is multiplied by 0
policy_check(policy_binding) == 1

\* proof_binding <== proofs_aggregate * 0 + 1
proof_binding(proofs_aggregate) == 1

\* no program has been run
NoSignals == [run |-> FALSE]

\* collateral_hashes[i] and liabilities_hashes[i]: the fold of the leaf hash
\* with the path; inputs[1] is indices[i] * (hashes[i] - path[i]) + path[i]
RECURSIVE path_hashers(_, _, _, _)
path_hashers(leaf, path, indices, i) ==
    IF i = 0 THEN leaf
    ELSE LET hash == path_hashers(leaf, path, indices, i - 1)
         IN  Poseidon(<<Mux1(hash, path[i], indices[i]),
                        IF indices[i] = 0 THEN path[i] ELSE hash>>)

\* collateral_computed_root and liabilities_computed_root
computed_root(total, path, indices) ==
    path_hashers(Poseidon(<<total>>), path, indices, TREE_DEPTH)

\* the comparison made strict
SolvencyValidStrict(signals) ==
    LET scaled_collateral == signals.total_collateral * E18
        required_collateral == signals.total_liabilities * signals.min_collateral_ratio
        policy_binding == Poseidon(<<signals.policy_hash, signals.epoch,
                                     signals.min_collateral_ratio>>)
    IN  GreaterThan(scaled_collateral, required_collateral) * policy_check(policy_binding)

\* Solvency, steps 2 and 3 and the output: valid <== gte.out * policy_check
SolvencyValid(signals) ==
    LET scaled_collateral == signals.total_collateral * E18
        required_collateral == signals.total_liabilities * signals.min_collateral_ratio
        policy_binding == Poseidon(<<signals.policy_hash, signals.epoch,
                                     signals.min_collateral_ratio>>)
    IN  GreaterEqThan(scaled_collateral, required_collateral) * policy_check(policy_binding)

\* template Solvency: the two === constraints on the roots, and the output
Solvency(signals) ==
    [run |-> TRUE,
     satisfied |->
        /\ computed_root(signals.total_collateral, signals.collateral_path,
                         signals.collateral_indices) = signals.collateral_root
        /\ computed_root(signals.total_liabilities, signals.liabilities_path,
                         signals.liabilities_indices) = signals.liabilities_root,
     valid |-> SolvencyValid(signals)]

\* template Supply: the === constraint on the commitment, and the output
\* valid <== lte.out * policy_check
Supply(signals) ==
    LET policy_binding == Poseidon(<<signals.policy_hash, signals.epoch>>)
    IN  [run |-> TRUE,
         satisfied |->
            Poseidon(<<signals.minted_supply, signals.authorized_supply, signals.nonce>>)
                = signals.supply_commitment,
         valid |-> LessEqThan(signals.minted_supply, signals.authorized_supply)
                       * policy_check(policy_binding)]

\* RiskBounds, step 2: ratio_valid[i] <== min_checks[i].out * max_checks[i].out
ratio_valid(signals, i) ==
    LET scaled_value == signals.asset_values[i] * E18
        required_min == signals.asset_liabilities[i] * signals.min_ratio
        required_max == signals.asset_liabilities[i] * signals.max_ratio
    IN  GreaterEqThan(scaled_value, required_min) * LessEqThan(scaled_value, required_max)

\* the aggregate keeping the last class only
RECURSIVE running_valid_last(_, _)
running_valid_last(signals, i) ==
    IF i = 1 THEN ratio_valid(signals, 1)
    ELSE ratio_valid(signals, i)

\* RiskBounds, step 3: running_valid[i] <== running_valid[i-1] * ratio_valid[i]
\* (the classes are counted from 1 here)
RECURSIVE running_valid(_, _)
running_valid(signals, i) ==
    IF i = 1 THEN ratio_valid(signals, 1)
    ELSE running_valid(signals, i - 1) * ratio_valid(signals, i)

\* RiskBounds, step 1: the commitment over the asset words and the nonce
bounds_commitment(asset_values, asset_liabilities, nonce) ==
    Poseidon(<<Poseidon([i \in 1..NUM_ASSETS |->
                            asset_values[i] + asset_liabilities[i] * E18]),
               nonce>>)

\* template RiskBounds: the === constraint on the commitment, and the output
\* valid <== running_valid[NUM_ASSETS - 1] * policy_check
RiskBounds(signals) ==
    LET policy_binding == Poseidon(<<signals.policy_hash, signals.epoch,
                                     signals.min_ratio, signals.max_ratio>>)
    IN  [run |-> TRUE,
         satisfied |->
            bounds_commitment(signals.asset_values, signals.asset_liabilities,
                              signals.nonce) = signals.bounds_commitment,
         valid |-> running_valid(signals, NUM_ASSETS) * policy_check(policy_binding)]

\* template Epoch: three === constraints, x * (x - 1) === 0 on each validity
\* signal; all_valid, epoch_positive.out and valid are computed
Epoch(signals) ==
    LET solvency_check == signals.solvency_valid * (signals.solvency_valid - 1)
        supply_check == signals.supply_valid * (signals.supply_valid - 1)
        risk_check == signals.risk_valid * (signals.risk_valid - 1)
        all_valid == signals.solvency_valid * signals.supply_valid * signals.risk_valid
        proofs_aggregate == Poseidon(<<signals.solvency_proof_hash,
                                       signals.supply_proof_hash,
                                       signals.risk_proof_hash>>)
    IN  [run |-> TRUE,
         satisfied |-> solvency_check = 0 /\ supply_check = 0 /\ risk_check = 0,
         valid |-> all_valid * GreaterThan(signals.epoch, 0)
                       * proof_binding(proofs_aggregate),
         epoch_hash |-> Poseidon(<<signals.epoch, signals.policy_hash, signals.issuer_id,
                                   signals.previous_epoch_hash, signals.timestamp>>)]

\* snarkjs.groth16.fullProve: the witness is calculated from the input file;
\* where a === constraint fails no witness and no proof come out
fullProve(program, signals) ==
    CASE program = "Solvency" -> Solvency(signals)
      [] program = "Supply" -> Supply(signals)
      [] program = "RiskBounds" -> RiskBounds(signals)
      [] program = "Epoch" -> Epoch(signals)

\* the prover runs the program at hand on its input file
generateProof ==
    /\ circuit # "none"
    /\ ~outputSignals.run
    /\ outputSignals' = fullProve(circuit, inputSignals)
    /\ UNCHANGED <<circuit, inputSignals>>

\* the same input file with one public input replaced, proved again
proveWithPublicInput(name, value) ==
    /\ circuit # "none"
    /\ outputSignals.run
    /\ inputSignals[name] # value
    /\ inputSignals' = [inputSignals EXCEPT ![name] = value]
    /\ outputSignals' = fullProve(circuit, inputSignals')
    /\ UNCHANGED circuit

(***************************************************************************)
(* The clock: block.timestamp moves forward between calls.                 *)
(***************************************************************************)
Tick(t) ==
    /\ t > now
    /\ now' = t
    /\ lastCall' = NoCall
    /\ UNCHANGED <<registryVars, policyVars, timerVars>>

\* the instants around the current epoch's deadline: one second after a default
\* duration, the last instant of the grace period, and the first one after it
TimerTimes ==
    LET state == epochs[currentEpoch]
    IN  { state.startTime + ONE_HOUR + 1,
          state.endTime + gracePeriod,
          state.endTime + gracePeriod + 1 }

(***************************************************************************)
(* The three contracts as constructed at block time 1, before any call:    *)
(* the first call arrives in the deployment block or after the first       *)
(* timer epoch and its grace period have passed.                           *)
(***************************************************************************)
StartTimes == {1, 1 + ONE_HOUR + FIVE_MINUTES + 1}

Deployed ==
    /\ now \in StartTimes
    /\ epochRecords = [a \in Senders |-> [e \in EpochInputs |-> ZeroRecord]]
    /\ latestEpoch = [a \in Senders |-> 0]
    /\ isRegisteredIssuer = [a \in Senders |-> FALSE]
    /\ registryEvents = EmptyBag
    /\ policies = [h \in HashInputs |-> ZeroPolicy]
    /\ policyVersions = <<>>
    /\ activePolicy = ZeroHash
    /\ governance = Gov
    /\ policyEvents = EmptyBag
    /\ currentEpoch = 1
    /\ epochDuration = ONE_HOUR
    /\ gracePeriod = FIVE_MINUTES
    /\ epochs = [k \in 0..MaxTimerEpoch |->
                    IF k = 1 THEN [ZeroEpochState EXCEPT !.startTime = 1,
                                                         !.endTime = 1 + ONE_HOUR]
                             ELSE ZeroEpochState]
    /\ missedEpochs = [a \in Senders |-> 0]
    /\ slashingScore = [a \in Senders |-> 0]
    /\ integrityRegistry = ZeroAddress
    /\ emGovernance = Gov
    /\ timerEvents = SetToBag({EpochStarted(1, 1, 1 + ONE_HOUR)})
    /\ lastCall = NoCall

\* no tree has been asked for
Init ==
    /\ Deployed
    /\ leafValues = <<>>
    /\ treeDepth = 0
    /\ builtTree = NoTree
    /\ witnessTree = NoWitnessTree
    /\ leafIndex = 0
    /\ merkleProof = NoProof
    /\ witnessProof = NoWitnessProof
    /\ checkedProof = NoProof
    /\ verified = "none"
    /\ submitters = [s \in Submitters |-> IdleSubmitter]
    /\ circuit = "none"
    /\ inputSignals = NoSignals
    /\ outputSignals = NoSignals

\* the leaf arrays, depths and indices the tree functions are called with
LeafValues == {0, 1}
LeafArrays == UNION { [1..n -> LeafValues] : n \in 0..MaxLeaves }
Depths == 0..MaxDepth
Indices == 0..(2 ^ MaxDepth)

\* a ledger has been read: a leaf array and a depth are at hand
InitMerkle ==
    /\ Deployed
    /\ now = 1
    /\ leafValues \in LeafArrays
    /\ treeDepth \in Depths
    /\ leafIndex \in Indices
    /\ builtTree = NoTree
    /\ witnessTree = NoWitnessTree
    /\ merkleProof = NoProof
    /\ witnessProof = NoWitnessProof
    /\ checkedProof = NoProof
    /\ verified = "none"
    /\ submitters = [s \in Submitters |-> IdleSubmitter]
    /\ circuit = "none"
    /\ inputSignals = NoSignals
    /\ outputSignals = NoSignals

\* the input files the programs are run on.  A public root or commitment is
\* either the one the private inputs hash to or that of other private inputs.
CircuitPolicyHashes == {keccak256("policy-a"), keccak256("policy-b")}
CircuitEpochs == 0..MaxEpoch
Paths == [1..TREE_DEPTH -> {Poseidon(<<0>>)}]
PathIndices == [1..TREE_DEPTH -> {0, 1}]

SolvencyInputFiles ==
    { [collateral_root |-> computed_root(cr, cp, ci),
       liabilities_root |-> computed_root(lr, lp, li),
       policy_hash |-> ph, epoch |-> e, min_collateral_ratio |-> r,
       total_collateral |-> tc, total_liabilities |-> tl,
       collateral_path |-> cp, collateral_indices |-> ci,
       liabilities_path |-> lp, liabilities_indices |-> li] :
        cr \in {1499, 1500}, lr \in {1000, 1001},
        ph \in CircuitPolicyHashes, e \in CircuitEpochs, r \in {2, 3},
        tc \in {1499, 1500}, tl \in {1000, 1001},
        cp \in Paths, ci \in PathIndices, lp \in Paths, li \in PathIndices }

SupplyInputFiles ==
    { [supply_commitment |-> Poseidon(<<ms, as, cn>>),
       policy_hash |-> ph, epoch |-> e,
       minted_supply |-> ms, authorized_supply |-> as, nonce |-> 7] :
        cn \in {7, 8}, ph \in CircuitPolicyHashes, e \in CircuitEpochs,
        ms \in (0..2), as \in (0..2) }

RiskBoundsInputFiles ==
    { [bounds_commitment |-> bounds_commitment(av, al, cn),
       policy_hash |-> ph, epoch |-> e, min_ratio |-> lo, max_ratio |-> hi,
       asset_values |-> av, asset_liabilities |-> al, nonce |-> 7] :
        cn \in {7, 8}, ph \in CircuitPolicyHashes, e \in CircuitEpochs,
        lo \in {2, 3}, hi \in {4},
        av \in [1..NUM_ASSETS -> (0..3)],
        al \in [1..NUM_ASSETS -> {1}] }

EpochInputFiles ==
    { [epoch |-> e, policy_hash |-> ph, issuer_id |-> 1,
       solvency_valid |-> sv, supply_valid |-> uv, risk_valid |-> rv,
       previous_epoch_hash |-> Poseidon(<<0>>),
       solvency_proof_hash |-> Poseidon(<<1>>), supply_proof_hash |-> Poseidon(<<2>>),
       risk_proof_hash |-> Poseidon(<<3>>), timestamp |-> 1] :
        e \in CircuitEpochs, ph \in CircuitPolicyHashes,
        sv \in (0..2), uv \in (0..2), rv \in (0..2) }

Programs == {"Solvency", "Supply", "RiskBounds", "Epoch"}

InputFiles(program) ==
    CASE program = "Solvency" -> SolvencyInputFiles
      [] program = "Supply" -> SupplyInputFiles
      [] program = "RiskBounds" -> RiskBoundsInputFiles
      [] program = "Epoch" -> EpochInputFiles

\* a program has been compiled and an input file written for it
InitCircuits ==
    /\ Deployed
    /\ now = 1
    /\ leafValues = <<>>
    /\ treeDepth = 0
    /\ builtTree = NoTree
    /\ witnessTree = NoWitnessTree
    /\ leafIndex = 0
    /\ merkleProof = NoProof
    /\ witnessProof = NoWitnessProof
    /\ checkedProof = NoProof
    /\ verified = "none"
    /\ submitters = [s \in Submitters |-> IdleSubmitter]
    /\ circuit \in Programs
    /\ inputSignals \in InputFiles(circuit)
    /\ outputSignals = NoSignals

(***************************************************************************)
(* Steps.  Calls come from the externally owned accounts; the registry     *)
(* contract itself makes no call to the other two contracts.               *)
(***************************************************************************)
RegisterIssuerStep(senders, registrations) ==
    \E sender \in senders :
        /\ Count(registryEvents, "IssuerRegistered") < registrations
        /\ registerIssuer(sender)
        /\ UNCHANGED offChainVars

SubmitProofStep(senders, roots, proofs, hashes, responses) ==
    \E sender \in senders, epoch \in EpochInputs, merkleRoot \in roots, proof \in proofs,
       publicInputs \in hashes, response \in responses :
        /\ submitProof(sender, epoch, merkleRoot, proof, publicInputs, response)
        /\ UNCHANGED offChainVars

RegisterPolicyStep(senders, inputs) ==
    \E sender \in senders, params \in inputs :
        registerPolicy(sender, params) /\ UNCHANGED offChainVars

ActivatePolicyStep(senders, hashes) ==
    \E sender \in senders, h \in hashes :
        activatePolicy(sender, h) /\ UNCHANGED offChainVars

IsValidPolicyStep(senders, hashes) ==
    \E sender \in senders, h \in hashes :
        isValidPolicyCall(sender, h) /\ UNCHANGED offChainVars

SetGovernanceStep(senders, governors) ==
    \E sender \in senders, g \in governors :
        setGovernance(sender, g) /\ UNCHANGED offChainVars

AdvanceEpochStep(senders) ==
    \E sender \in senders : advanceEpoch(sender) /\ UNCHANGED offChainVars

RecordSubmissionStep(senders, issuers, counted) ==
    \E sender \in senders, issuer \in issuers :
        /\ epochs[currentEpoch].totalSubmissions < counted
        /\ recordSubmission(sender, issuer)
        /\ UNCHANGED offChainVars

RecordMissedEpochStep(senders, issuers, missed) ==
    \E sender \in senders, issuer \in issuers :
        /\ Count(timerEvents, "MissedEpoch") < missed
        /\ recordMissedEpoch(sender, issuer)
        /\ UNCHANGED offChainVars

SetEpochDurationStep(senders, durations) ==
    \E sender \in senders, d \in durations :
        setEpochDuration(sender, d) /\ UNCHANGED offChainVars

SetIntegrityRegistryStep(senders, registries) ==
    \E sender \in senders, r \in registries :
        setIntegrityRegistry(sender, r) /\ UNCHANGED offChainVars

ClockStep(times) == \E t \in times : Tick(t) /\ UNCHANGED offChainVars

\* const tree = buildTree(values, depth); the padding goes to the copy
\* [...values], the caller's array is not written
BuildTreeStep ==
    /\ builtTree = NoTree
    /\ builtTree' = buildTree(leafValues, treeDepth)
    /\ leafValues' = leafValues
    /\ UNCHANGED <<contractVars, submitters, circuitVars, treeDepth, leafIndex, witnessTree, merkleProof,
                   witnessProof, checkedProof, verified>>

\* getProof(tree, index) on a tree buildTree returned
GetProofStep ==
    /\ builtTree.error = "none"
    /\ merkleProof = NoProof
    /\ merkleProof' = getProof(builtTree, leafIndex)
    /\ UNCHANGED <<contractVars, submitters, circuitVars, leafValues, treeDepth, leafIndex, builtTree, witnessTree,
                   witnessProof, checkedProof, verified>>

\* the values a sibling of a witness is replaced by
Replacements == {hashLeaf(0), hashLeaf(1), hashPair(hashLeaf(0), hashLeaf(0))}

\* the witnesses that differ from one in a single sibling or a single indicator
OneChange(witness) ==
    ({ [witness EXCEPT !.path[k] = r] :
           k \in DOMAIN witness.path, r \in Replacements } \ {witness})
    \cup { [witness EXCEPT !.indices[k] = 1 - @] : k \in DOMAIN witness.indices }

\* verifyProof on the witness getProof returned, as it is or changed in one place
VerifyProofStep ==
    /\ merkleProof.error = "none"
    /\ verified = "none"
    /\ \E witness \in {merkleProof} \cup OneChange(merkleProof) :
          /\ checkedProof' = witness
          /\ verified' = IF verifyProof(witness) THEN "true" ELSE "false"
    /\ UNCHANGED <<contractVars, submitters, circuitVars, leafValues, treeDepth, leafIndex, builtTree, witnessTree,
                   merkleProof, witnessProof>>

\* const tree = buildMerkleTree(values, depth) of the witness generator
BuildMerkleTreeStep ==
    /\ witnessTree = NoWitnessTree
    /\ witnessTree' = buildMerkleTree(leafValues, treeDepth)
    /\ leafValues' = leafValues
    /\ UNCHANGED <<contractVars, submitters, circuitVars, treeDepth, leafIndex, builtTree, merkleProof,
                   witnessProof, checkedProof, verified>>

\* getMerkleProof(tree.leaves, index, depth) on the leaves buildMerkleTree returned
GetMerkleProofStep ==
    /\ witnessTree.error = "none"
    /\ witnessProof = NoWitnessProof
    /\ witnessProof' = getMerkleProof(witnessTree.leaves, leafIndex, treeDepth)
    /\ UNCHANGED <<contractVars, submitters, circuitVars, leafValues, treeDepth, leafIndex, builtTree, witnessTree,
                   merkleProof, checkedProof, verified>>

\* the two halves of EpochSubmitter.submitEpoch for one wallet
SubmitEpochCheckStep(wallets) ==
    \E s \in Submitters, wallet \in wallets, epoch \in 1..MaxEpoch :
        submitEpochCheck(s, wallet, epoch)

SubmitEpochSendStep(wallets, roots, proofs, hashes, responses) ==
    \E s \in Submitters, wallet \in wallets, merkleRoot \in roots, proof \in proofs,
       publicInputs \in hashes, response \in responses :
        submitEpochSend(s, wallet, merkleRoot, proof, publicInputs, response)

SubmitEpochReturnStep == \E s \in Submitters : submitEpochReturn(s)

GenerateProofStep ==
    generateProof /\ UNCHANGED <<contractVars, merkleVars, submitters>>

ReplacePolicyHashStep(hashes) ==
    \E h \in hashes :
        proveWithPublicInput("policy_hash", h)
            /\ UNCHANGED <<contractVars, merkleVars, submitters>>

ReplaceEpochStep(epochNumbers) ==
    \E e \in epochNumbers :
        proveWithPublicInput("epoch", e)
            /\ UNCHANGED <<contractVars, merkleVars, submitters>>

\* the registry alone
NextRegistry ==
    \/ RegisterIssuerStep(Issuers, MaxRegistrations)
    \/ SubmitProofStep(Issuers, Roots, {"p1"}, {ZeroHash}, Responses)

SpecRegistry == Init /\ [][NextRegistry]_vars

PolicyV1 == <<1, 2, 4, 2, 3600>>
PolicyBad == <<3, 1, 4, 2, 3600>>
Callers == {Gov, "alice"}

\* the registry with both issuers, beside a policy being registered and
\* activated and the timer advancing
NextRecords ==
    \/ RegisterIssuerStep(Issuers, MaxRegistrations)
    \/ SubmitProofStep({"alice"}, Roots, {"p1"}, {ZeroHash}, {"true", "false"})
    \/ SubmitProofStep({"bob"}, {"r1"}, {"p1"}, {ZeroHash}, {"true"})
    \/ RegisterPolicyStep({Gov}, {PolicyV1})
    \/ ActivatePolicyStep({Gov}, {keccak256(PolicyV1)})
    \/ AdvanceEpochStep({"alice"})

SpecRecords == Init /\ [][NextRecords]_vars

\* the three contracts together

Next ==
    \/ RegisterIssuerStep({"alice"}, CoreRegistrations)
    \/ SubmitProofStep({"alice"}, {"r1"}, {"p1"}, {keccak256(PolicyV1)}, {"true", "false"})
    \/ RegisterPolicyStep(Callers, {PolicyV1, PolicyBad})
    \/ ActivatePolicyStep(Callers, {keccak256(PolicyV1), keccak256(PolicyBad)})
    \/ SetGovernanceStep(Callers, {Gov, ZeroAddress})
    \/ AdvanceEpochStep({"alice"})
    \/ RecordSubmissionStep(Callers, {"alice"}, CoreCounted)
    \/ RecordMissedEpochStep(Callers, {"alice"}, CoreMissed)
    \/ SetEpochDurationStep(Callers, {ONE_HOUR - 1, ONE_HOUR})
    \/ SetIntegrityRegistryStep(Callers, {Gov, ZeroAddress})

Spec == Init /\ [][Next]_vars

\* the epoch timer with the account governance configures as its registry
\* recording submissions and misses, up to the score's cap
NextSlashing ==
    \/ SetIntegrityRegistryStep({Gov}, {Gov, ZeroAddress})
    \/ RecordSubmissionStep(Callers, {"alice"}, CoreCounted)
    \/ RecordMissedEpochStep(Callers, {"alice"}, MaxMissed)
    \/ AdvanceEpochStep({"alice"})
    \/ SetEpochDurationStep({Gov}, {ONE_HOUR - 1, 2 * ONE_HOUR})

SpecSlashing == Init /\ [][NextSlashing]_vars

\* the epoch timer under a moving clock, advanced by any caller
NextTimer ==
    \/ ClockStep(TimerTimes)
    \/ AdvanceEpochStep(Callers)
    \/ SetEpochDurationStep(Callers, {ONE_HOUR - 1, ONE_HOUR, 2 * ONE_HOUR})

SpecTimer == Init /\ [][NextTimer]_vars

\* advanceEpoch is open to every account: some caller keeps trying
SpecTimerFair == SpecTimer /\ WF_vars(AdvanceEpochStep(Callers))

PolicyV0 == <<0, 2, 4, 2, 3600>>
PolicyV3 == <<3, 2, 4, 2, 3600>>
PolicyV4 == <<4, 2, 4, 2, 3600>>
PolicyV5 == <<5, 2, 4, 2, 3600>>
VersionedPolicies == {PolicyV0, PolicyV3, PolicyV4, PolicyV5}

\* the policy registry: governance registers and activates policies of versions
\* 0, 3, 4 and 5 in any order, and any account asks whether a hash is valid
NextPolicy ==
    \/ RegisterPolicyStep({Gov}, VersionedPolicies)
    \/ ActivatePolicyStep({Gov}, { keccak256(p) : p \in VersionedPolicies })
    \/ IsValidPolicyStep({"alice"}, { keccak256(p) : p \in VersionedPolicies \cup {PolicyV1} })

SpecPolicy == Init /\ [][NextPolicy]_vars


\* the policy registry called with in-range and out-of-range ratios
PolicyV2 == <<2, 3, 4, 2, 3600>>
RatioInputs == {PolicyV1, PolicyV2, PolicyV3} \cup {p \in PolicyInputs : p[1] = 3}

NextRatios ==
    \/ RegisterPolicyStep(Callers, RatioInputs)
    \/ ActivatePolicyStep({Gov}, {keccak256(PolicyV1), keccak256(PolicyV2)})

SpecRatios == Init /\ [][NextRatios]_vars

\* the tree builder and the witness generator on every leaf array, depth and index
NextMerkle ==
    \/ BuildTreeStep
    \/ GetProofStep
    \/ VerifyProofStep
    \/ BuildMerkleTreeStep
    \/ GetMerkleProofStep

SpecMerkle == InitMerkle /\ [][NextMerkle]_vars

\* submissions whose public inputs carry a commitment root and an epoch number
BoundInputs == { <<root, epoch>> : root \in Roots, epoch \in 1..MaxEpoch }

NextBinding ==
    \/ RegisterIssuerStep({"alice"}, CoreRegistrations)
    \/ SubmitProofStep({"alice"}, Roots, {"p1"}, BoundInputs, {"true", "false"})

SpecBinding == Init /\ [][NextBinding]_vars

\* the timer with its clock, its counters and a change of duration
NextEpochs ==
    \/ ClockStep(TimerTimes)
    \/ AdvanceEpochStep({"alice"})
    \/ SetIntegrityRegistryStep({Gov}, {Gov})
    \/ RecordSubmissionStep({Gov}, {"alice"}, CoreCounted)
    \/ RecordMissedEpochStep({Gov}, {"alice"}, CoreMissed)
    \/ SetEpochDurationStep({Gov}, {2 * ONE_HOUR})

SpecEpochs == Init /\ [][NextEpochs]_vars

\* two clients of one issuer submitting at the same time
NextSubmitters ==
    \/ RegisterIssuerStep({"alice"}, CoreRegistrations)
    \/ SubmitEpochCheckStep({"alice"})
    \/ SubmitEpochSendStep({"alice"}, Roots, {"p1"}, {ZeroHash}, {"true", "false"})
    \/ SubmitEpochReturnStep

SpecSubmitters == Init /\ [][NextSubmitters]_vars

\* the constraint programs run on their input files
NextCircuits ==
    \/ GenerateProofStep
    \/ ReplacePolicyHashStep(CircuitPolicyHashes)
    \/ ReplaceEpochStep(CircuitEpochs)

SpecCircuits == InitCircuits /\ [][NextCircuits]_vars

(***************************************************************************)
(* Properties                                                              *)
(***************************************************************************)
HasRecord(issuer, epoch) == epochRecords[issuer][epoch].timestamp # 0

StoredEpochs(issuer) == { e \in EpochInputs : HasRecord(issuer, e) }

AllStored == { ie \in Senders \X EpochInputs : HasRecord(ie[1], ie[2]) }

Failed(call) == call.result \notin {"ok", "none"}

\* the block time is past the current epoch's end and grace period
DeadlinePassed == now > epochs[currentEpoch].endTime + gracePeriod

\* C1: for every issuer the epochs that have a stored record are exactly
\* 1..latestEpoch[issuer], and each record carries the epoch it is stored under.
C1_EpochsContiguous ==
    \A i \in Senders :
        /\ StoredEpochs(i) = 1..latestEpoch[i]
        /\ \A e \in StoredEpochs(i) :
              epochRecords[i][e].epoch = e /\ epochRecords[i][e].issuer = i

C1_Witness ==
    \E i \in Senders : latestEpoch[i] >= 2 /\ HasRecord(i, 1) /\ HasRecord(i, 2)

\* C2: a submission by a registered issuer with latest epoch k and an epoch
\* other than k+1 ends with InvalidEpoch, whatever the verifier answers.
C2_InvalidEpochRegardless ==
    [][ ( /\ lastCall'.op = "submitProof"
          /\ isRegisteredIssuer[lastCall'.sender]
          /\ lastCall'.epoch # latestEpoch[lastCall'.sender] + 1 )
        => lastCall'.result = "InvalidEpoch" ]_vars

C2_Witness ==
    /\ lastCall.op = "submitProof"
    /\ lastCall.result = "InvalidEpoch"
    /\ lastCall.response = "true"
    /\ isRegisteredIssuer[lastCall.sender]
    /\ lastCall.epoch = latestEpoch[lastCall.sender] + 2

\* C3: once a record is stored for (issuer, epoch), no step of any of the three
\* contracts changes a field of it or removes it.
C3_RecordsImmutable ==
    [][ \A i \in Senders, e \in EpochInputs :
            HasRecord(i, e) => epochRecords'[i][e] = epochRecords[i][e] ]_vars

C3_Witness ==
    /\ lastCall.op = "registerIssuer"
    /\ HasRecord(lastCall.sender, 1)
    /\ HasRecord(lastCall.sender, 2)
    /\ \E j \in Senders \ {lastCall.sender} : HasRecord(j, 1)
    /\ currentEpoch = 2
    /\ activePolicy # ZeroHash

\* C4: the log holds exactly one IntegrityProven event per stored record, with the
\* record's issuer, epoch, root, proof hash and timestamp, it is there only when
\* latestEpoch has reached that epoch, and there is no other IntegrityProven event.
C4_OneNotificationPerAcceptance ==
    /\ \A i \in Senders, e \in EpochInputs :
          HasRecord(i, e) =>
              /\ CopiesIn(IntegrityProven(i, e, epochRecords[i][e].merkleRoot,
                                          epochRecords[i][e].proofHash,
                                          epochRecords[i][e].timestamp),
                          registryEvents) = 1
              /\ latestEpoch[i] >= e
    /\ Count(registryEvents, "IntegrityProven") = Cardinality(AllStored)

C4_Witness ==
    /\ lastCall.op = "submitProof"
    /\ lastCall.result = "ok"
    /\ lastCall.epoch = 2
    /\ Count(registryEvents, "IntegrityProven") >= 3

\* C5: after a submission that failed verification, the log holds a rejection
\* event for that issuer and epoch.
C5_RejectionObservable ==
    (lastCall.op = "submitProof" /\ lastCall.result = "ProofVerificationFailed")
        => \E ev \in DOMAIN registryEvents :
              /\ ev.type = "ProofRejected"
              /\ ev.issuer = lastCall.sender
              /\ ev.epoch = lastCall.epoch

\* C6: a submission that failed verification changes neither the records nor
\* latestEpoch, a retry of the same epoch with an accepted proof right after it
\* succeeds, and in every state a registered issuer's next epoch with an accepted
\* proof would be accepted.
NextEpochAccepted ==
    \A i \in Senders :
        (isRegisteredIssuer[i] /\ latestEpoch[i] < MaxEpoch)
            => submitProofResult(i, latestEpoch[i] + 1, "true") = "ok"

C6_RetryAfterFailure ==
    /\ []NextEpochAccepted
    /\ [][ /\ lastCall'.result = "ProofVerificationFailed"
              => UNCHANGED <<epochRecords, latestEpoch>>
           /\ ( /\ lastCall.result = "ProofVerificationFailed"
                /\ lastCall'.op = "submitProof"
                /\ lastCall'.sender = lastCall.sender
                /\ lastCall'.epoch = lastCall.epoch
                /\ _verifyProof(lastCall'.response) )
              => lastCall'.result = "ok" ]_vars

C6_Witness ==
    /\ lastCall.op = "submitProof"
    /\ lastCall.result = "ProofVerificationFailed"
    /\ lastCall.epoch = 2
    /\ submitProofResult(lastCall.sender, lastCall.epoch, "true") = "ok"

\* C7: a call that ends with an error leaves the state and the logs of the
\* registry, the policy registry and the epoch timer as they were.
C7_ErrorsLeaveState ==
    [][ Failed(lastCall') => UNCHANGED <<registryVars, policyVars, timerVars>> ]_vars

C7_Witness ==
    /\ lastCall.op = "advanceEpoch"
    /\ lastCall.result = "Current epoch still active"
    /\ currentEpoch = 2
    /\ HasRecord("alice", 1)
    /\ activePolicy # ZeroHash

\* C8: a submission is accepted only if the policy fingerprint in its public
\* inputs is one isValidPolicy reports valid at that time.
C8_AcceptedUnderValidPolicy ==
    (lastCall.op = "submitProof" /\ lastCall.result = "ok")
        => isValidPolicy(lastCall.publicInputs) = "true"

\* C9: an issuer has at most one record accepted since the current timer epoch
\* was opened.
C9_OneSubmissionPerTimerEpoch ==
    \A i \in Senders :
        Cardinality({ e \in StoredEpochs(i) :
            epochRecords[i][e].timestamp > epochs[currentEpoch].startTime }) <= 1

\* C10: an accepted submission leaves the submitter's consecutive-miss counter
\* at 0 and every other issuer's counter as it was.
C10_SubmitClearsMissCounter ==
    [][ (lastCall'.op = "submitProof" /\ lastCall'.result = "ok")
        => /\ missedEpochs'[lastCall'.sender] = 0
           /\ \A j \in Senders \ {lastCall'.sender} :
                 missedEpochs'[j] = missedEpochs[j] ]_vars

\* C11: a successful advanceEpoch raises by one the miss counter of every
\* registered issuer with no record accepted since the finalized epoch opened and
\* applies the penalty to it, and leaves the counter and the score of a registered
\* issuer who submitted in that epoch as they were.
C11_FinalizationSlashes ==
    [][ (lastCall'.op = "advanceEpoch" /\ lastCall'.result = "ok")
        => \A i \in Senders :
              isRegisteredIssuer[i] =>
                 IF \E e \in StoredEpochs(i) :
                       epochRecords[i][e].timestamp >= epochs[currentEpoch].startTime
                    THEN /\ missedEpochs'[i] = missedEpochs[i]
                         /\ slashingScore'[i] = slashingScore[i]
                    ELSE /\ missedEpochs'[i] = missedEpochs[i] + 1
                         /\ slashingScore'[i] =
                               SlashedScore(missedEpochs[i] + 1, slashingScore[i]) ]_vars

\* C12: the log never holds two MissedEpoch events for the same issuer and the
\* same timer epoch.
C12_OneMissPerEpoch ==
    \A ev \in DOMAIN timerEvents : ev.type = "MissedEpoch" => timerEvents[ev] <= 1

\* C13: while every miss recorded for an issuer belongs to its current streak
\* (the streak started from counter 0 and score 0), the score after n misses is
\* 5, 15, 25, 45 for n = 1..4, then 20 more per miss, capped at 100.
C13_SlashingProgression ==
    \A i \in Senders :
        LET n == missedEpochs[i]
            recorded == BagCardinality(
                [e \in { x \in DOMAIN timerEvents :
                            x.type = "MissedEpoch" /\ x.issuer = i } |-> timerEvents[e]])
            claimed == IF n = 0 THEN 0
                       ELSE IF n = 1 THEN 5
                       ELSE IF n = 2 THEN 15
                       ELSE IF n = 3 THEN 25
                       ELSE IF 45 + 20 * (n - 4) > 100 THEN 100
                       ELSE 45 + 20 * (n - 4)
        IN  recorded = n => slashingScore[i] = claimed

C13_Witness ==
    /\ lastCall.op = "recordMissedEpoch"
    /\ lastCall.result = "ok"
    /\ missedEpochs["alice"] = 8
    /\ slashingScore["alice"] = 100
    /\ Count(timerEvents, "MissedEpoch") = 8

\* C14: every issuer's slashing score is within 0..100, and no step lowers one.
C14_ScoreBoundedMonotone ==
    /\ [](\A i \in Senders : slashingScore[i] \in 0..100)
    /\ [][\A i \in Senders : slashingScore'[i] >= slashingScore[i]]_vars

C14_Witness ==
    /\ lastCall.op = "recordSubmission"
    /\ lastCall.result = "ok"
    /\ slashingScore["alice"] = 100
    /\ missedEpochs["alice"] = 0
    /\ currentEpoch = 2

\* C17: a recordSubmission or recordMissedEpoch call from an account other than
\* the configured registry ends with Unauthorized, and every step that changes an
\* epoch's submission or slashed count, a miss counter or a slashing score is such
\* a call made by the configured registry.
C17_OnlyRegistryRecords ==
    [][ /\ ( /\ lastCall'.op \in {"recordSubmission", "recordMissedEpoch"}
              /\ lastCall'.sender # integrityRegistry )
           => lastCall'.result = "Unauthorized"
        /\ ( \/ missedEpochs' # missedEpochs
              \/ slashingScore' # slashingScore
              \/ \E k \in DOMAIN epochs :
                    \/ epochs'[k].totalSubmissions # epochs[k].totalSubmissions
                    \/ epochs'[k].totalSlashed # epochs[k].totalSlashed )
           => /\ lastCall'.op \in {"recordSubmission", "recordMissedEpoch"}
              /\ lastCall'.sender = integrityRegistry
              /\ integrityRegistry # ZeroAddress ]_vars

C17_Witness ==
    /\ lastCall.op = "recordMissedEpoch"
    /\ lastCall.result = "Unauthorized"
    /\ integrityRegistry = Gov
    /\ lastCall.sender = "alice"
    /\ missedEpochs["alice"] > 0

\* C15: an advanceEpoch call succeeds exactly when now > endTime + gracePeriod of
\* the current epoch, which from startTime on is exactly when isEpochActive is
\* false; at now = endTime + gracePeriod it fails while isEpochActive is true; a
\* success raises currentEpoch by exactly 1 and a failure leaves it.
C15_AdvanceAtBoundary ==
    [][ lastCall'.op = "advanceEpoch"
        => LET state == epochs[currentEpoch]
               ok == lastCall'.result = "ok"
           IN  /\ ok <=> now > state.endTime + gracePeriod
               /\ now >= state.startTime => (ok <=> ~isEpochActive)
               /\ now = state.endTime + gracePeriod => (~ok /\ isEpochActive)
               /\ (now = state.startTime + 3601 /\ state.endTime = state.startTime + 3600
                      /\ gracePeriod = 300) => ~ok
               /\ (now = state.startTime + 3901 /\ state.endTime = state.startTime + 3600
                      /\ gracePeriod = 300) => ok
               /\ currentEpoch' = IF ok THEN currentEpoch + 1 ELSE currentEpoch ]_vars

C15_Witness ==
    /\ lastCall.op = "advanceEpoch"
    /\ lastCall.result = "Current epoch still active"
    /\ currentEpoch = 2
    /\ now = epochs[currentEpoch].endTime + gracePeriod
    /\ isEpochActive

\* C16: the current epoch is never already finalized; once now has passed its
\* endTime + gracePeriod an advanceEpoch call by any caller would succeed, and
\* that stays so until the epoch counter moves; with some caller that keeps
\* calling, the counter then moves past its value.
C16_TimerNeverStuck ==
    /\ [](~epochs[currentEpoch].finalized)
    /\ [](DeadlinePassed => advanceEpochResult = "ok")
    /\ [][(DeadlinePassed /\ currentEpoch' = currentEpoch) => DeadlinePassed']_vars
    /\ \A k \in 1..(MaxTimerEpoch - 1) :
          (currentEpoch = k /\ DeadlinePassed) ~> (currentEpoch > k)

C16_Witness ==
    /\ lastCall.op = "advanceEpoch"
    /\ lastCall.result = "ok"
    /\ currentEpoch = 3
    /\ epochs[2].finalized
    /\ epochs[2].endTime = epochs[2].startTime + 2 * ONE_HOUR

\* C18: isValidPolicy answers true for exactly the active policy and the
\* registered policies whose version is one less than the active policy's.
C18_ValidExactlyOneBehind ==
    \A h \in HashInputs :
        isValidPolicy(h) = "true"
            <=> /\ policies[h].createdAt # 0
                /\ \/ h = activePolicy
                   \/ policies[h].version = policies[activePolicy].version - 1

\* C19: with an active policy of version v >= 2, a registered policy of version
\* v - 1 is valid and every registered policy of version v - 2 or lower is not.
C19_GraceWindow ==
    \A h \in HashInputs :
        ( /\ activePolicy # ZeroHash
          /\ policies[activePolicy].version >= 2
          /\ policies[h].createdAt # 0 )
        => /\ policies[h].version = policies[activePolicy].version - 1
                => isValidPolicy(h) = "true"
           /\ policies[h].version <= policies[activePolicy].version - 2
                => isValidPolicy(h) = "false"

C19_Witness ==
    /\ activePolicy = keccak256(PolicyV5)
    /\ policies[keccak256(PolicyV4)].createdAt # 0
    /\ isValidPolicy(keccak256(PolicyV4)) = "true"
    /\ lastCall.op = "isValidPolicy"
    /\ lastCall.publicInputs = keccak256(PolicyV3)
    /\ policies[keccak256(PolicyV3)].createdAt # 0
    /\ lastCall.result = "false"

\* C20: for every hash and in every state isValidPolicy answers true or false.
C20_IsValidNeverAborts ==
    \A h \in HashInputs : isValidPolicy(h) \in {"true", "false"}

\* the registered records whose active flag is set
ActivePolicies == {h \in HashInputs : policies[h].isActive}

\* C21: at most one policy record is flagged active; once an activation has
\* succeeded exactly one is, the one the active pointer names; a successful
\* activation leaves the activated record as the only flagged one and logs
\* the deactivation of the record that was active before.
C21_OneActivePolicy ==
    /\ [](/\ Cardinality(ActivePolicies) <= 1
          /\ Count(policyEvents, "PolicyActivated") > 0
                => /\ activePolicy # ZeroHash
                   /\ ActivePolicies = {activePolicy})
    /\ [][(lastCall'.op = "activatePolicy" /\ lastCall'.result = "ok")
            => /\ ActivePolicies' = {activePolicy'}
               /\ \A h \in ActivePolicies :
                     /\ h # activePolicy' => ~policies'[h].isActive
                     /\ Count(policyEvents', "PolicyDeactivated")
                          = Count(policyEvents, "PolicyDeactivated") + 1]_vars

\* a second policy was activated while another one was active
C21_Witness ==
    /\ lastCall.op = "activatePolicy"
    /\ lastCall.result = "ok"
    /\ \E h \in HashInputs :
          /\ h # activePolicy
          /\ policies[h].createdAt # 0
          /\ ~policies[h].isActive
          /\ PolicyDeactivated(h, now) \in DOMAIN policyEvents

\* a policy record without its active flag
Parameters(policy) == [policy EXCEPT !.isActive = FALSE]

\* C22: a stored policy record keeps its hash, version, ratios, coverage,
\* deadline and creation time through every step; activatePolicy changes
\* nothing but active flags and the active pointer; registerPolicy leaves the
\* active pointer and the flagged records alone and stores its record inactive.
C22_PolicyRecordsImmutable ==
    [][/\ \A h \in HashInputs :
             policies[h].createdAt # 0 => Parameters(policies'[h]) = Parameters(policies[h])
       /\ lastCall'.op = "activatePolicy"
             => /\ \A h \in HashInputs : Parameters(policies'[h]) = Parameters(policies[h])
                /\ UNCHANGED <<policyVersions, governance>>
       /\ lastCall'.op = "registerPolicy"
             => /\ activePolicy' = activePolicy
                /\ ActivePolicies' = ActivePolicies
                /\ UNCHANGED governance
                /\ \A h \in HashInputs :
                      (policies[h].createdAt = 0 /\ policies'[h].createdAt # 0)
                          => ~policies'[h].isActive]_vars

\* a policy is registered while another one is active, and the registration
\* of the active one is attempted again
C22_Witness ==
    /\ lastCall.op = "registerPolicy"
    /\ lastCall.result = "PolicyExists"
    /\ activePolicy # ZeroHash
    /\ policies[activePolicy].isActive
    /\ \E h \in HashInputs :
          /\ h # activePolicy
          /\ policies[h].createdAt # 0
          /\ ~policies[h].isActive
          /\ PolicyDeactivated(h, now) \in DOMAIN policyEvents

\* parameters inside the ranges registerPolicy accepts
RatiosInRange(min, max, coverage) ==
    /\ MIN_RATIO <= min
    /\ min <= max
    /\ max <= MAX_RATIO
    /\ coverage >= MIN_RATIO

\* C23: every stored policy record has 100% <= min <= max <= 1000% and a
\* supply coverage of at least 100%; a registration with parameters outside
\* these ranges fails, with InvalidRatio when governance makes it, and leaves
\* the policy registry as it was.
C23_RatiosInRange ==
    /\ [](\A h \in HashInputs :
              policies[h].createdAt # 0
                  => RatiosInRange(policies[h].minCollateralRatio,
                                   policies[h].maxCollateralRatio,
                                   policies[h].minSupplyCoverage))
    /\ [][\A sender \in Callers, params \in RatioInputs :
              (registerPolicy(sender, params)
                 /\ ~RatiosInRange(params[2], params[3], params[4]))
                  => /\ Failed(lastCall')
                     /\ sender = governance => lastCall'.result = "InvalidRatio"
                     /\ UNCHANGED policyVars]_vars

\* governance has a registration refused for its ratios after one was stored
C23_Witness ==
    /\ lastCall.op = "registerPolicy"
    /\ lastCall.sender = governance
    /\ lastCall.result = "InvalidRatio"
    /\ policies[keccak256(PolicyV2)].createdAt # 0
    /\ \A p \in RatioInputs :
          ~RatiosInRange(p[2], p[3], p[4]) => policies[keccak256(p)] = ZeroPolicy

\* C24: in the order of registration the versions of the stored policy
\* records are strictly increasing.
C24_VersionsIncreasing ==
    \A i, j \in 1..Len(policyVersions) :
        i < j => policies[policyVersions[i]].version < policies[policyVersions[j]].version

\* C25: registerPolicy, activatePolicy and registerIssuer succeed only for the
\* governance account; called by any other account they fail and change
\* no state.
C25_PrivilegedCallsOnly ==
    [][lastCall'.op \in {"registerPolicy", "activatePolicy", "registerIssuer"}
          => /\ lastCall'.result = "ok" => lastCall'.sender = governance
             /\ lastCall'.sender # governance
                   => /\ Failed(lastCall')
                      /\ UNCHANGED <<registryVars, policyVars, timerVars>>]_vars

\* k explicit zero leaves
Zeros(k) == [i \in 1..k |-> 0]

\* the leaf array filled up with zero leaves to the size of a tree of that depth
ZeroPadded(values, depth) == values \o Zeros(2 ^ depth - Len(values))

\* C26: for a leaf array that fits the depth, the tree builder and the witness
\* generator return the zero-padded array as leaves, and the root they return
\* is the root of every array that is the input followed by explicit zero
\* leaves; the caller's array is the same after the call.
C26_RootOfPaddedLeaves ==
    /\ [](Len(leafValues) <= 2 ^ treeDepth
            => /\ builtTree.error # "unbuilt"
                  => /\ builtTree.error = "none"
                     /\ builtTree.leaves = ZeroPadded(leafValues, treeDepth)
                     /\ \A k \in 0..(2 ^ treeDepth - Len(leafValues)) :
                           buildTree(leafValues \o Zeros(k), treeDepth).root
                               = builtTree.root
               /\ witnessTree.error # "unbuilt"
                  => /\ witnessTree.error = "none"
                     /\ witnessTree.leaves = ZeroPadded(leafValues, treeDepth)
                     /\ \A k \in 0..(2 ^ treeDepth - Len(leafValues)) :
                           buildMerkleTree(leafValues \o Zeros(k), treeDepth).root
                               = witnessTree.root)
    /\ [][(builtTree'.error # builtTree.error \/ witnessTree'.error # witnessTree.error)
             => leafValues' = leafValues]_vars

\* both builders have padded a three-leaf array to a tree of depth 2
C26_Witness ==
    /\ leafValues = <<1, 0, 1>>
    /\ treeDepth = 2
    /\ builtTree.error = "none"
    /\ builtTree.leaves = <<1, 0, 1, 0>>
    /\ witnessTree.error = "none"
    /\ witnessTree.root = builtTree.root

\* C27: for every tree buildTree returned and every index below 2^depth,
\* getProof returns a witness whose path and indicator sequence have exactly
\* depth entries, and verifyProof accepts it.
C27_InclusionRoundTrip ==
    (merkleProof.error # "unasked" /\ leafIndex < 2 ^ treeDepth)
        => /\ merkleProof.error = "none"
           /\ Len(merkleProof.path) = treeDepth
           /\ Len(merkleProof.indices) = treeDepth
           /\ verifyProof(merkleProof)
           /\ (verified # "none" /\ checkedProof = merkleProof) => verified = "true"

\* the witness of a padded leaf at an odd index of a depth-2 tree was accepted
C27_Witness ==
    /\ leafValues = <<1, 1>>
    /\ treeDepth = 2
    /\ leafIndex = 3
    /\ checkedProof = merkleProof
    /\ merkleProof.indices = <<1, 1>>
    /\ verified = "true"

\* the node of the tree on the leaf's own path that the k-th sibling is hashed with
OwnNode(k) == builtTree.layers[k][(leafIndex \div 2 ^ (k - 1)) + 1]

\* C28 as claimed: a witness that verifies and is then changed in one
\* sibling or one indicator is refused.
C28_AnyChangeRefused ==
    (verified # "none" /\ verifyProof(merkleProof) /\ checkedProof # merkleProof)
        => verified = "false"

\* C28: a witness that verifies is refused after one sibling is replaced by a
\* different value; after one indicator is flipped it is refused exactly when
\* the sibling at that place differs from the node it is hashed with.
C28_ChangeRefusedUnlessEqualSibling ==
    (verified # "none" /\ verifyProof(merkleProof) /\ checkedProof # merkleProof)
        => /\ checkedProof.path # merkleProof.path => verified = "false"
           /\ \A k \in DOMAIN merkleProof.indices :
                 checkedProof.indices[k] # merkleProof.indices[k]
                     => (verified = "false" <=> merkleProof.path[k] # OwnNode(k))

\* an indicator of the second level was flipped and the witness refused
C28_Witness ==
    /\ leafValues = <<1, 1, 0>>
    /\ treeDepth = 2
    /\ leafIndex = 0
    /\ checkedProof.path = merkleProof.path
    /\ checkedProof.indices = <<0, 1>>
    /\ verified = "false"

\* C29: for a leaf array longer than 2^depth the tree builder and the
\* witness generator return nothing and fail with DepthExceeded.
C29_DepthExceeded ==
    Len(leafValues) > 2 ^ treeDepth
        => /\ builtTree.error \in {"unbuilt", "DepthExceeded"}
           /\ witnessTree.error \in {"unbuilt", "DepthExceeded"}

\* C30: for an index at or past the number of leaves getProof and
\* getMerkleProof return no witness and fail with an index-out-of-range error.
C30_IndexOutOfRange ==
    /\ (builtTree.error = "none" /\ leafIndex >= Len(builtTree.leaves))
          => merkleProof.error \in {"unasked", "Index out of bounds"}
    /\ (witnessTree.error = "none" /\ leafIndex >= Len(witnessTree.leaves))
          => witnessProof.error \in {"unasked", "Index out of bounds"}

\* the solvency inequality on the input file at hand
Covered ==
    inputSignals.total_collateral * E18
        >= inputSignals.total_liabilities * inputSignals.min_collateral_ratio

\* asset class i lies inside the ratio bounds on the input file at hand
InBounds(i) ==
    /\ inputSignals.asset_liabilities[i] * inputSignals.min_ratio
          <= inputSignals.asset_values[i] * E18
    /\ inputSignals.asset_values[i] * E18
          <= inputSignals.asset_liabilities[i] * inputSignals.max_ratio

\* the program at hand has run and its constraints are satisfied
Satisfied(program) ==
    circuit = program /\ outputSignals.run /\ outputSignals.satisfied

\* C31: the Solvency program's validity output is 1 exactly when
\* totalCollateral * 10^18 >= totalLiabilities * minRatio, equality included,
\* and 0 otherwise: collateral 1500 against liabilities 1000 at a ratio of
\* 1.5e18 gives 1, collateral 1499 or liabilities 1001 give 0.
C31_SolvencyValidIffCovered ==
    Satisfied("Solvency") =>
        /\ outputSignals.valid = (IF Covered THEN 1 ELSE 0)
        /\ inputSignals.min_collateral_ratio = 3 =>
              outputSignals.valid =
                  (IF inputSignals.total_collateral = 1500
                        /\ inputSignals.total_liabilities = 1000 THEN 1 ELSE 0)

\* the roots match, collateral 1500 covers liabilities 1000 at 1.5e18 exactly,
\* and the output is 1
C31_Witness ==
    /\ Satisfied("Solvency")
    /\ inputSignals.total_collateral = 1500
    /\ inputSignals.total_liabilities = 1000
    /\ inputSignals.min_collateral_ratio = 3
    /\ inputSignals.total_collateral * E18
          = inputSignals.total_liabilities * inputSignals.min_collateral_ratio
    /\ outputSignals.valid = 1

\* C32: private inputs that satisfy Solvency, Supply or RiskBounds for the
\* public inputs (policy_hash, epoch) no longer satisfy the program once only
\* policy_hash or only epoch is replaced and everything else is kept.
C32_ReplacedPublicInputRefused ==
    [][\A name \in {"policy_hash", "epoch"} :
          ( /\ circuit \in {"Solvency", "Supply", "RiskBounds"}
            /\ outputSignals.run
            /\ outputSignals.satisfied
            /\ inputSignals'[name] # inputSignals[name]
            /\ inputSignals' = [inputSignals EXCEPT ![name] = inputSignals'[name]] )
          => ~outputSignals'.satisfied]_vars

\* C33: RiskBounds' validity output is 1 exactly when every asset class has
\* assetLiabilities[i] * minRatio <= assetValues[i] * 10^18
\* <= assetLiabilities[i] * maxRatio; one class out of bounds makes it 0
\* whatever the other classes are.
C33_RiskValidIffAllInBounds ==
    Satisfied("RiskBounds") =>
        /\ outputSignals.valid = (IF \A i \in 1..NUM_ASSETS : InBounds(i) THEN 1 ELSE 0)
        /\ (\E i \in 1..NUM_ASSETS : ~InBounds(i)) => outputSignals.valid = 0

\* the first class alone is out of bounds (below the minimum) and the output
\* is 0
C33_Witness ==
    /\ Satisfied("RiskBounds")
    /\ ~InBounds(1)
    /\ inputSignals.asset_values[1] = 0
    /\ \A i \in 2..NUM_ASSETS : InBounds(i)
    /\ outputSignals.valid = 0

\* C34: EpochAggregate has a satisfying assignment only if each of the three
\* validity signals is 0 or 1, their product is 1 and epoch > 0; with a
\* signal equal to 0 or with epoch 0 no satisfying assignment exists.
C34_SatisfiedOnlyIfAllValid ==
    Satisfied("Epoch") =>
        /\ inputSignals.solvency_valid \in {0, 1}
        /\ inputSignals.supply_valid \in {0, 1}
        /\ inputSignals.risk_valid \in {0, 1}
        /\ inputSignals.solvency_valid * inputSignals.supply_valid
              * inputSignals.risk_valid = 1
        /\ inputSignals.epoch > 0

\* C35: a successful activatePolicy never lowers the version of the active
\* policy.
C35_ActiveVersionNeverDecreases ==
    [][(lastCall'.op = "activatePolicy" /\ lastCall'.result = "ok"
          /\ activePolicy # ZeroHash)
          => policies'[activePolicy'].version >= policies[activePolicy].version]_vars

\* C36: the record a submission stores carries the commitment root and the
\* epoch of the public inputs the verifier accepted in that submission.
C36_RecordBoundToProof ==
    (lastCall.op = "submitProof" /\ lastCall.result = "ok")
        => /\ epochRecords[lastCall.sender][lastCall.epoch].merkleRoot
                 = lastCall.publicInputs[1]
           /\ epochRecords[lastCall.sender][lastCall.epoch].epoch
                 = lastCall.publicInputs[2]

\* C37: a record is stored only for epochs up to the issuer's latest epoch,
\* so the epoch that passes the sequence check never has a record and no
\* submission ends with EpochAlreadySubmitted.
C37_AlreadySubmittedUnreachable ==
    /\ \A issuer \in Senders, epoch \in EpochInputs :
          HasRecord(issuer, epoch) => epoch <= latestEpoch[issuer]
    /\ \A issuer \in Senders, epoch \in EpochInputs :
          epoch = latestEpoch[issuer] + 1 => ~HasRecord(issuer, epoch)
    /\ lastCall.result # "EpochAlreadySubmitted"

\* a second epoch was accepted after the first, and a repeat of it refused
C37_Witness ==
    /\ lastCall.op = "submitProof"
    /\ lastCall.sender = "alice"
    /\ lastCall.epoch = 2
    /\ lastCall.result = "InvalidEpoch"
    /\ latestEpoch["alice"] = 2
    /\ HasRecord("alice", 1)
    /\ HasRecord("alice", 2)

\* C38: epoch k of the timer is finalized exactly when 1 <= k < currentEpoch,
\* and the stored state of a finalized epoch is never written again.
C38_FinalizedExactlyPastEpochs ==
    /\ [](\A k \in DOMAIN epochs :
              epochs[k].finalized <=> (1 <= k /\ k < currentEpoch))
    /\ [][\A k \in DOMAIN epochs :
              epochs[k].finalized => epochs'[k] = epochs[k]]_vars

\* two epochs were finalized with a submission and a miss counted in them,
\* and a submission is counted in the third
C38_Witness ==
    /\ currentEpoch = 3
    /\ epochs[1].finalized
    /\ epochs[1].totalSubmissions = 1
    /\ epochs[2].finalized
    /\ epochs[2].totalSlashed = 1
    /\ epochs[3].totalSubmissions = 1
    /\ lastCall.op = "recordSubmission"

\* C39: each epoch starts after the end and the grace period of the one
\* before it; an epoch is opened with endTime = startTime + the epochDuration
\* of that moment, and no later step, setEpochDuration included, changes the
\* start or end time of an opened epoch.
C39_WindowsNeverOverlap ==
    /\ [](\A k \in 1..(currentEpoch - 1) :
              epochs[k + 1].startTime > epochs[k].endTime + gracePeriod)
    /\ [][/\ currentEpoch' # currentEpoch
                => /\ epochs'[currentEpoch'].startTime = now
                   /\ epochs'[currentEpoch'].endTime = now + epochDuration
          /\ \A k \in 1..currentEpoch :
                /\ epochs'[k].startTime = epochs[k].startTime
                /\ epochs'[k].endTime = epochs[k].endTime
          /\ lastCall'.op = "setEpochDuration" => epochs' = epochs]_vars

\* the duration was doubled during the second epoch: that epoch kept its one
\* hour and the third was opened with two
C39_Witness ==
    /\ currentEpoch = 3
    /\ epochs[2].endTime = epochs[2].startTime + ONE_HOUR
    /\ epochs[3].startTime > epochs[2].endTime + gracePeriod
    /\ epochs[3].endTime = epochs[3].startTime + 2 * ONE_HOUR

\* how many IntegrityProven events the registry log holds for an issuer's epoch
ProvenCount(issuer, epoch) ==
    BagCardinality([e \in { x \in DOMAIN registryEvents :
                              /\ x.type = "IntegrityProven"
                              /\ x.issuer = issuer
                              /\ x.epoch = epoch } |-> registryEvents[e]])

\* the clients among two whose transaction was accepted
Accepted(s, t) == { u \in {s, t} : submitters[u].result = "ok" }

\* C40: when two submitEpoch calls of one issuer pass the client-side check
\* on the same latestEpoch, the registry accepts at most one transaction; the
\* one applied after an accepted one fails with InvalidEpoch and changes
\* nothing; latestEpoch advances by one with one record and one
\* IntegrityProven event exactly when one was accepted.
C40_ConcurrentSubmitsAcceptOne ==
    /\ [](\A s, t \in Submitters :
             ( /\ s # t
               /\ submitters[s].pc = "done"
               /\ submitters[t].pc = "done"
               /\ submitters[s].latestEpoch = submitters[t].latestEpoch )
             => LET latest == submitters[s].latestEpoch
                IN  /\ Cardinality(Accepted(s, t)) <= 1
                    /\ latestEpoch["alice"] = latest + Cardinality(Accepted(s, t))
                    /\ HasRecord("alice", latest + 1) <=> Accepted(s, t) # {}
                    /\ ProvenCount("alice", latest + 1) = Cardinality(Accepted(s, t)))
    /\ [][\A s \in Submitters :
             ( /\ submitters[s].pc = "checked"
               /\ submitters'[s].pc = "done"
               /\ latestEpoch["alice"] # submitters[s].latestEpoch )
             => /\ submitters'[s].result = "InvalidEpoch"
                /\ UNCHANGED registryVars]_vars

\* both clients read latestEpoch 1 and sent epoch 2 with a proof the verifier
\* accepts: one transaction was accepted, the other refused
C40_Witness ==
    /\ submitters["s1"].pc = "done"
    /\ submitters["s2"].pc = "done"
    /\ submitters["s1"].latestEpoch = 1
    /\ submitters["s2"].latestEpoch = 1
    /\ submitters["s1"].result = "InvalidEpoch"
    /\ submitters["s2"].result = "ok"
    /\ lastCall.response = "true"
    /\ lastCall.result = "InvalidEpoch"
    /\ latestEpoch["alice"] = 2

====
